---- MODULE Spec2Model ----
(***************************************************************************)
(* Model of nullboot's efibootmgr.KernelManager (kernel install / removal  *)
(* / fallback-loader commit) and of the nullbootctl orchestration.         *)
(*                                                                         *)
(* A string is the sequence of its bytes (ASCII codes), so that prefix     *)
(* tests, slicing, concatenation, byte-wise ordering and the package-      *)
(* version comparison are computed, byte by byte, as the code does.  Every *)
(* string literal is followed by its text in a comment.                    *)
(***************************************************************************)
EXTENDS Integers, Sequences, FiniteSets, TLC

(***************************************************************************)
(* Bounds of the model.                                                    *)
(***************************************************************************)
\* largest number of files enumerated in one directory
MaxFiles == 2

(***************************************************************************)
(* Bytes and strings.                                                      *)
(***************************************************************************)
\* unicode.IsDigit and unicode.IsLetter on ASCII
IsDigit(c) == c >= 48 /\ c <= 57
IsLetter(c) == (c >= 97 /\ c <= 122) \/ (c >= 65 /\ c <= 90)

\* strings.ToUpper
ToUpper(s) == [i \in 1..Len(s) |-> IF s[i] >= 97 /\ s[i] <= 122 THEN s[i] - 32 ELSE s[i]]

\* strings.HasPrefix
HasPrefix(s, p) == Len(s) >= Len(p) /\ SubSeq(s, 1, Len(p)) = p

\* s[n:] of Go (n counted from 0)
SliceFrom(s, n) == SubSeq(s, n + 1, Len(s))

\* byte-wise s < t, the order in which ReadDir returns names
RECURSIVE StrLess(_, _)
StrLess(s, t) ==
  IF t = <<>> THEN FALSE
  ELSE IF s = <<>> THEN TRUE
  ELSE IF Head(s) # Head(t) THEN Head(s) < Head(t)
  ELSE StrLess(Tail(s), Tail(t))

\* position of the first / last occurrence of byte c in s, 0 when absent
IndexOf(s, c) ==
  IF \E i \in 1..Len(s) : s[i] = c
  THEN CHOOSE i \in 1..Len(s) : s[i] = c /\ \A j \in 1..(i - 1) : s[j] # c
  ELSE 0

LastIndexOf(s, c) ==
  IF \E i \in 1..Len(s) : s[i] = c
  THEN CHOOSE i \in 1..Len(s) : s[i] = c /\ \A j \in (i + 1)..Len(s) : s[j] # c
  ELSE 0

\* strings.TrimSpace (space, tab, newline, carriage return)
RECURSIVE TrimLeft(_)
TrimLeft(s) == IF s # <<>> /\ Head(s) \in {32, 9, 10, 13} THEN TrimLeft(Tail(s)) ELSE s

RECURSIVE TrimRight(_)
TrimRight(s) ==
  IF s # <<>> /\ s[Len(s)] \in {32, 9, 10, 13}
  THEN TrimRight(SubSeq(s, 1, Len(s) - 1)) ELSE s

TrimSpace(s) == TrimRight(TrimLeft(s))

\* the value of a string of decimal digits
RECURSIVE DigitsVal(_)
DigitsVal(s) ==
  IF s = <<>> THEN 0
  ELSE 10 * DigitsVal(SubSeq(s, 1, Len(s) - 1)) + (s[Len(s)] - 48)

\* strconv.Atoi: an optional sign and decimal digits; ok = FALSE is the error
Atoi(s) ==
  IF s # <<>> /\ Head(s) \in {43, 45}   \* "+", "-"
  THEN [ok  |-> Len(s) > 1 /\ \A i \in 2..Len(s) : IsDigit(s[i]),
        val |-> IF Head(s) = 45 THEN 0 - DigitsVal(Tail(s)) ELSE DigitsVal(Tail(s))]
  ELSE [ok  |-> s # <<>> /\ \A i \in 1..Len(s) : IsDigit(s[i]),
        val |-> DigitsVal(s)]

(***************************************************************************)
(* Package-version parsing and comparison (go-deb-version), as called by   *)
(* the comparison closure of readKernels.                                  *)
(***************************************************************************)
\* the length of the leading run of digits (want = TRUE) or of non-digits
RECURSIVE RunLen(_, _)
RunLen(s, want) ==
  IF s # <<>> /\ IsDigit(Head(s)) = want THEN 1 + RunLen(Tail(s), want) ELSE 0

\* the maximal runs of digits and of non-digits of s, in order
RECURSIVE Runs(_)
RunsCut(s, n) == <<SubSeq(s, 1, n)>> \o Runs(SliceFrom(s, n))

Runs(s) == IF s = <<>> THEN <<>> ELSE RunsCut(s, RunLen(s, IsDigit(Head(s))))

\* the runs of digits ([0-9]+), each as a number
ToNumbers(runs) == [i \in 1..Len(runs) |-> DigitsVal(runs[i])]

Numbers(s) == ToNumbers(SelectSeq(Runs(s), LAMBDA r : IsDigit(Head(r))))

\* the runs of non-digits ([^0-9]+), after "" when s starts with a digit
NonDigits(s) ==
  (IF s # <<>> /\ IsDigit(Head(s)) THEN << <<>> >> ELSE <<>>)
    \o SelectSeq(Runs(s), LAMBDA r : ~IsDigit(Head(r)))

\* sort weight of a byte: tilde first, then the letters, then the rest
Order(c) ==
  IF IsLetter(c) THEN c
  ELSE IF c = 126 THEN 0 - 1   \* "~"
  ELSE c + 256

Max(a, b) == IF a >= b THEN a ELSE b

\* the first of a, b, c that is not 0
FirstNonZero(a, b, c) == IF a # 0 THEN a ELSE IF b # 0 THEN b ELSE c

\* comparison of two runs of non-digits; a missing byte weighs 0
RECURSIVE CompareStringFrom(_, _, _)
CompareStringFrom(s1, s2, i) ==
  IF i > Max(Len(s1), Len(s2)) THEN 0
  ELSE FirstNonZero((IF i <= Len(s1) THEN Order(s1[i]) ELSE 0)
                      - (IF i <= Len(s2) THEN Order(s2[i]) ELSE 0),
                    0,
                    CompareStringFrom(s1, s2, i + 1))

CompareString(s1, s2) == IF s1 = s2 THEN 0 ELSE CompareStringFrom(s1, s2, 1)

\* comparison of two upstream versions or two revisions: alternately a run
\* of non-digits and a number; a missing run is "" and a missing number 0
RECURSIVE ComparePartsFrom(_, _, _, _, _)
ComparePartsFrom(n1, t1, n2, t2, i) ==
  IF i > Max(Max(Len(n1), Len(n2)), Max(Len(t1), Len(t2))) THEN 0
  ELSE FirstNonZero(CompareString(IF i <= Len(t1) THEN t1[i] ELSE <<>>,
                                  IF i <= Len(t2) THEN t2[i] ELSE <<>>),
                    (IF i <= Len(n1) THEN n1[i] ELSE 0)
                      - (IF i <= Len(n2) THEN n2[i] ELSE 0),
                    ComparePartsFrom(n1, t1, n2, t2, i + 1))

CompareParts(v1, v2) ==
  IF v1 = v2 THEN 0
  ELSE ComparePartsFrom(Numbers(v1), NonDigits(v1), Numbers(v2), NonDigits(v2), 1)

\* ".-+~:_" and "+.~_"
UpstreamSymbols == {46, 45, 43, 126, 58, 95}
RevisionSymbols == {43, 46, 126, 95}

VerifyUpstreamVersion(s) ==
  /\ s # <<>>
  /\ IsDigit(Head(s))
  /\ \A i \in 1..Len(s) : IsDigit(s[i]) \/ IsLetter(s[i]) \/ s[i] \in UpstreamSymbols

VerifyDebianRevision(s) ==
  \A i \in 1..Len(s) : IsDigit(s[i]) \/ IsLetter(s[i]) \/ s[i] \in RevisionSymbols

\* the Version of epoch e ([ok, val]), upstream version up and revision rev;
\* ok = FALSE stands for the error NewVersion returns
MakeVersion(e, up, rev) ==
  [ok              |-> /\ e.ok
                       /\ e.val >= 0
                       /\ VerifyUpstreamVersion(up)
                       /\ VerifyDebianRevision(rev),
   epoch           |-> e.val,
   upstreamVersion |-> up,
   debianRevision  |-> rev]

\* the part after the epoch, cut at its last "-" (position dash)
SplitRevision(e, rest, dash) ==
  IF dash = 0 THEN MakeVersion(e, rest, <<>>)
  ELSE MakeVersion(e, SubSeq(rest, 1, dash - 1), SliceFrom(rest, dash))

\* the version cut at its first ":" (position colon)
SplitEpoch(ver, colon) ==
  IF colon = 0 THEN SplitRevision([ok |-> TRUE, val |-> 0], ver, LastIndexOf(ver, 45))
  ELSE SplitRevision(Atoi(SubSeq(ver, 1, colon - 1)), SliceFrom(ver, colon),
                     LastIndexOf(SliceFrom(ver, colon), 45))

TrimmedVersion(ver) == SplitEpoch(ver, IndexOf(ver, 58))

\* version.NewVersion
NewVersion(str) == TrimmedVersion(TrimSpace(str))

\* Version.Compare: negative, zero or positive
Compare(a, b) ==
  FirstNonZero(a.epoch - b.epoch,
               CompareParts(a.upstreamVersion, b.upstreamVersion),
               CompareParts(a.debianRevision, b.debianRevision))

\* Version.GreaterThan
GreaterThan(a, b) == Compare(a, b) > 0

(***************************************************************************)
(* The file system (appFs) and the file names of the model.                *)
(***************************************************************************)
\* "kernel.efi-"
KernelPrefix == <<107, 101, 114, 110, 101, 108, 46, 101, 102, 105, 45>>

\* "kernel.efi-5.4.0-9", "kernel.efi-5.4.0-10", "kernel.efi-5.4.0-09" (the
\* version of the third compares equal to the one of the first),
\* "kernel.efi-abc" (no version) and "shimx64.efi" (no kernel)
Kernel9   == KernelPrefix \o <<53, 46, 52, 46, 48, 45, 57>>
Kernel10  == KernelPrefix \o <<53, 46, 52, 46, 48, 45, 49, 48>>
Kernel09  == KernelPrefix \o <<53, 46, 52, 46, 48, 45, 48, 57>>
KernelBad == KernelPrefix \o <<97, 98, 99>>
OtherFile == <<115, 104, 105, 109, 120, 54, 52, 46, 101, 102, 105>>

\* the names a directory of the model may hold
FileNames == {Kernel9, Kernel10, Kernel09, KernelBad, OtherFile}

\* the two directories of NewKernelManager
SourceDirPath == "/usr/lib/linux"
TargetDirPath == "/boot/efi/EFI/ubuntu"
\* "root=magic"
KernelOptions == <<114, 111, 111, 116, 61, 109, 97, 103, 105, 99>>

\* the architecture tags GetEfiArchitecture can return: "x64", "aa64"
Architectures == { <<120, 54, 52>>, <<97, 97, 54, 52>> }

VARIABLES
  arch,         \* the result of GetEfiArchitecture() of this build
  fs,           \* appFs: directory path -> [exists, files: name -> content]
  bootcsv,      \* the file BOOT<ARCH>.CSV of the target directory: [exists, data]
  km,           \* the *KernelManager returned by NewKernelManager (NilManager: nil)
  pc,           \* the step main() runs next
  lastOp,       \* the operation that ran last
  ret,          \* the error it returned ("nil": none)
  calls,        \* the file-system calls it made that can fail softly, in order:
                \* MaybeUpdateFile, appFs.Remove, WriteShimFallbackToFile
  installCalls, \* InstallKernels calls in a row up to now: 0, 1, or 2 for two or more
  efivars,      \* the EFIVariables implementation a caller was given ("none": none)
  store,        \* MockEFIVariables.store: [isNil, m: descriptor -> [data, attrs]]
  efiOut        \* the last EFIVariables call: its arguments and what it returned

kmVars == <<arch, fs, bootcsv, km, pc, lastOp, ret, calls, installCalls>>
efiVars == <<efivars, store, efiOut>>
vars == <<kmVars, efiVars>>

NilManager ==
  [isNil |-> TRUE, sourceDir |-> "", targetDir |-> "", sourceKernels |-> <<>>,
   targetKernels |-> <<>>, bootEntries |-> <<>>, kernelOptions |-> <<>>]

\* the names of the files of a directory
Names(dir) == DOMAIN fs[dir].files

\* the name as if the architecture were not put in upper case
BootCsvName_NoUpper(a) == <<66, 79, 79, 84>> \o a \o <<46, 67, 83, 86>>

\* the name of the fallback configuration file: "BOOT" + upper-case
\* architecture + ".CSV"
BootCsvName(a) == <<66, 79, 79, 84>> \o ToUpper(a) \o <<46, 67, 83, 86>>

\* a set of names as the list sorted by name
RECURSIVE SortByName(_)
SortByNameFrom(S, m) == <<m>> \o SortByName(S \ {m})

SortByName(S) ==
  IF S = {} THEN <<>>
  ELSE SortByNameFrom(S, CHOOSE x \in S : \A y \in S \ {x} : StrLess(x, y))

\* appFs.ReadDir: the entries of the directory sorted by name, or an error
ReadDir(dir) ==
  IF ~fs[dir].exists THEN [entries |-> <<>>, err |-> "ErrNotExist"]
  ELSE [entries |-> SortByName(Names(dir) \cup
                      (IF dir = TargetDirPath /\ bootcsv.exists
                       THEN {BootCsvName(arch)} ELSE {})),
        err |-> "nil"]

(***************************************************************************)
(* readKernels and NewKernelManager.                                       *)
(***************************************************************************)
\* getKernelABI (also the slice kernels[i][len("kernel.efi-"):] of readKernels)
getKernelABI(kernel) == SliceFrom(kernel, Len(KernelPrefix))

\* LessOf with the comparison turned round (b.GreaterThan(a)): an ascending
\* sort
LessOf_Ascending(a, b, err) ==
  IF ~a.ok THEN [lt |-> FALSE, err |-> "ErrParse"]
  ELSE IF ~b.ok THEN [lt |-> FALSE, err |-> "ErrParse"]
  ELSE [lt |-> GreaterThan(b, a), err |-> err]

\* the comparison closure of readKernels on the parsed versions a and b:
\* its result and the err it captures (err: the one captured so far)
LessOf(a, b, err) ==
  IF ~a.ok THEN [lt |-> FALSE, err |-> "ErrParse"]
  ELSE IF ~b.ok THEN [lt |-> FALSE, err |-> "ErrParse"]
  ELSE [lt |-> GreaterThan(a, b), err |-> err]

\* the comparison closure of readKernels
Less(kernels, i, j, err) ==
  LessOf(NewVersion(getKernelABI(kernels[i])), NewVersion(getKernelABI(kernels[j])), err)

Swap(s, i, j) == [s EXCEPT ![i] = s[j], ![j] = s[i]]

\* sort.Slice on fewer than 13 elements: one pass with gap 6, then an
\* insertion sort; st is [data, err], r the result of a comparison
RECURSIVE ShellPass(_, _)
ShellStep(st, i, r) ==
  ShellPass([data |-> IF r.lt THEN Swap(st.data, i, i - 6) ELSE st.data,
             err  |-> r.err], i + 1)

ShellPass(st, i) ==
  IF i > Len(st.data) THEN st ELSE ShellStep(st, i, Less(st.data, i, i - 6, st.err))

RECURSIVE InsertionInner(_, _)
InnerStep(st, j, r) ==
  IF r.lt THEN InsertionInner([data |-> Swap(st.data, j, j - 1), err |-> r.err], j - 1)
  ELSE [data |-> st.data, err |-> r.err]

InsertionInner(st, j) ==
  IF j <= 1 THEN st ELSE InnerStep(st, j, Less(st.data, j, j - 1, st.err))

RECURSIVE InsertionSort(_, _)
InsertionSort(st, i) ==
  IF i > Len(st.data) THEN st ELSE InsertionSort(InsertionInner(st, i), i + 1)

SortSlice(kernels) ==
  IF Len(kernels) > 1
  THEN InsertionSort(ShellPass([data |-> kernels, err |-> "nil"], 7), 2)
  ELSE [data |-> kernels, err |-> "nil"]

\* entries whose name starts with "kernel.efi-", in order
KernelEntries(entries) == SelectSeq(entries, LAMBDA n : HasPrefix(n, KernelPrefix))

\* what readKernels returns for the sorted list and the captured err
SortedKernels(sorted) == [kernels |-> sorted.data, err |-> sorted.err]

\* readKernels on the result of ReadDir
KernelsOf(listing) ==
  IF listing.err # "nil" THEN [kernels |-> <<>>, err |-> "ErrReadDir"]
  ELSE SortedKernels(SortSlice(KernelEntries(listing.entries)))

readKernels(dir) == KernelsOf(ReadDir(dir))

\* the manager returned whatever reading the target directory gave
NewManagerFrom_IgnoreTargetError(src, tgt) ==
  IF src.err # "nil" THEN [km |-> NilManager, err |-> src.err]
  ELSE [km  |-> [isNil |-> FALSE, sourceDir |-> SourceDirPath,
                 targetDir |-> TargetDirPath, sourceKernels |-> src.kernels,
                 targetKernels |-> tgt.kernels, bootEntries |-> <<>>,
                 kernelOptions |-> KernelOptions],
        err |-> "nil"]

\* what NewKernelManager returns, [km, err], for the two readKernels results
NewManagerFrom(src, tgt) ==
  IF src.err # "nil" THEN [km |-> NilManager, err |-> src.err]
  ELSE IF tgt.err # "nil" THEN [km |-> NilManager, err |-> tgt.err]
  ELSE [km  |-> [isNil |-> FALSE, sourceDir |-> SourceDirPath,
                 targetDir |-> TargetDirPath, sourceKernels |-> src.kernels,
                 targetKernels |-> tgt.kernels, bootEntries |-> <<>>,
                 kernelOptions |-> KernelOptions],
        err |-> "nil"]

NewKernelManagerResult ==
  NewManagerFrom(readKernels(SourceDirPath), readKernels(TargetDirPath))

NewKernelManager ==
  /\ km.isNil
  /\ \E r \in {NewKernelManagerResult} :
       /\ km' = r.km
       /\ ret' = r.err
  /\ lastOp' = "NewKernelManager"
  /\ calls' = <<>>
  /\ UNCHANGED <<arch, fs, bootcsv, installCalls>>

(***************************************************************************)
(* InstallKernels.                                                         *)
(***************************************************************************)
\* a file added to, or overwritten in, the files of a directory
WithFile(files, name, content) ==
  [n \in DOMAIN files \cup {name} |-> IF n = name THEN content ELSE files[n]]

\* a file removed from the files of a directory
WithoutFile(files, name) == [n \in DOMAIN files \ {name} |-> files[n]]

\* MaybeUpdateFile(dst, src) on the files of the target directory: copies the
\* source file ("cur" content) when the target file is absent or differs and
\* reports whether it did; a failing call (fails = TRUE) changes nothing
MaybeUpdateFile(files, name, fails) ==
  IF fails THEN [files |-> files, updated |-> FALSE, err |-> "ErrCopy"]
  ELSE IF name \in DOMAIN files /\ files[name] = "cur"
       THEN [files |-> files, updated |-> FALSE, err |-> "nil"]
       ELSE [files |-> WithFile(files, name, "cur"), updated |-> TRUE, err |-> "nil"]

\* "shim", ".efi", "Ubuntu with kernel ", "Ubuntu entry for kernel "
Str_shim        == <<115, 104, 105, 109>>
Str_efi         == <<46, 101, 102, 105>>
Str_Label       == <<85, 98, 117, 110, 116, 117, 32, 119, 105, 116, 104, 32, 107, 101, 114, 110, 101, 108, 32>>
Str_Description == <<85, 98, 117, 110, 116, 117, 32, 101, 110, 116, 114, 121, 32, 102, 111, 114, 32, 107, 101, 114, 110, 101, 108, 32>>

\* NewBootEntry without the leading "\" of Options
NewBootEntry_NoSeparator(sk, a, options) ==
  [Filename    |-> Str_shim \o a \o Str_efi,
   Label       |-> Str_Label \o getKernelABI(sk),
   Options     |-> sk \o <<32>> \o options,
   Description |-> Str_Description \o getKernelABI(sk)]

\* the BootEntry InstallKernels builds for source kernel sk:
\*   Filename    "shim" + arch + ".efi"
\*   Label       "Ubuntu with kernel " + ABI
\*   Options     "\" + sk + " " + options
\*   Description "Ubuntu entry for kernel " + ABI
NewBootEntry(sk, a, options) ==
  [Filename    |-> Str_shim \o a \o Str_efi,
   Label       |-> Str_Label \o getKernelABI(sk),
   Options     |-> <<92>> \o sk \o <<32>> \o options,
   Description |-> Str_Description \o getKernelABI(sk)]

\* the record of one MaybeUpdateFile call
CopyRecord(sk, r) ==
  [call |-> "MaybeUpdateFile", kernel |-> sk, err |-> r.err, updated |-> r.updated]

\* the loop of InstallKernels from source kernel i on; fails[i] tells whether
\* the i-th MaybeUpdateFile call fails; st is [files, bootEntries, log]
RECURSIVE InstallLoop(_, _, _, _)

\* InstallStep without the "continue" after a failed copy: the entry of the
\* kernel is appended all the same
InstallStep_NoContinue(m, fails, i, st, r) ==
  InstallLoop(m, fails, i + 1,
              [files       |-> r.files,
               bootEntries |-> Append(st.bootEntries,
                                      NewBootEntry(m.sourceKernels[i], arch, m.kernelOptions)),
               log         |-> Append(st.log, CopyRecord(m.sourceKernels[i], r))])

\* InstallStep with "break" for "continue": a failed copy ends the loop
InstallStep_AbortOnError(m, fails, i, st, r) ==
  IF r.err # "nil"
  THEN [files       |-> r.files,
        bootEntries |-> st.bootEntries,
        log         |-> Append(st.log, CopyRecord(m.sourceKernels[i], r))]
  ELSE InstallLoop(m, fails, i + 1,
                   [files       |-> r.files,
                    bootEntries |-> Append(st.bootEntries,
                                      NewBootEntry(m.sourceKernels[i], arch, m.kernelOptions)),
                    log         |-> Append(st.log, CopyRecord(m.sourceKernels[i], r))])

\* the body of the loop for source kernel i, r being what MaybeUpdateFile
\* returned: on an error the kernel is skipped, otherwise its entry is appended
InstallStep(m, fails, i, st, r) ==
  InstallLoop(m, fails, i + 1,
              [files       |-> r.files,
               bootEntries |-> IF r.err # "nil" THEN st.bootEntries
                               ELSE Append(st.bootEntries,
                                      NewBootEntry(m.sourceKernels[i], arch, m.kernelOptions)),
               log         |-> Append(st.log, CopyRecord(m.sourceKernels[i], r))])

InstallLoop(m, fails, i, st) ==
  IF i > Len(m.sourceKernels) THEN st
  ELSE InstallStep(m, fails, i, st, MaybeUpdateFile(st.files, m.sourceKernels[i], fails[i]))

\* InstallResult without "km.bootEntries = nil": the entries are added to
\* the ones of the earlier calls
InstallResult_NoReset(m, fails) ==
  InstallLoop(m, fails, 1,
              [files |-> fs[m.targetDir].files, bootEntries |-> m.bootEntries, log |-> <<>>])

\* the state InstallKernels leaves: km.bootEntries is reset first
InstallResult(m, fails) ==
  InstallLoop(m, fails, 1,
              [files |-> fs[m.targetDir].files, bootEntries |-> <<>>, log |-> <<>>])

InstallKernels ==
  /\ ~km.isNil
  /\ \E fails \in [1..Len(km.sourceKernels) -> BOOLEAN] :
       \E r \in {InstallResult(km, fails)} :
         /\ fs' = [fs EXCEPT ![km.targetDir].files = r.files]
         /\ km' = [km EXCEPT !.bootEntries = r.bootEntries]
         /\ calls' = r.log
  /\ ret' = "nil"
  /\ lastOp' = "InstallKernels"
  /\ installCalls' = IF installCalls < 2 THEN installCalls + 1 ELSE 2
  /\ UNCHANGED <<arch, bootcsv>>

(***************************************************************************)
(* RemoveObsoleteKernels.                                                  *)
(***************************************************************************)
\* isObsoleteKernel that returns after looking at the first source kernel
isObsoleteKernel_FirstOnly(m, k) == m.sourceKernels = <<>> \/ m.sourceKernels[1] # k

isObsoleteKernel(m, k) == \A i \in 1..Len(m.sourceKernels) : m.sourceKernels[i] # k

\* appFs.Remove on the files of the target directory; it fails when the file
\* does not exist or on an I/O error (fails = TRUE), and then changes nothing
Remove(files, name, fails) ==
  IF fails \/ name \notin DOMAIN files
  THEN [files |-> files, err |-> "ErrRemove"]
  ELSE [files |-> WithoutFile(files, name), err |-> "nil"]

\* the record of one appFs.Remove call
RemoveRecord(tk, r) == [call |-> "Remove", kernel |-> tk, err |-> r.err]

\* the loop of RemoveObsoleteKernels from target kernel i on; fails[i] tells
\* whether a Remove call for the i-th kernel fails; st is [files, remaining, log]
RECURSIVE RemoveLoop(_, _, _, _)

\* RemoveStep that does not keep a kernel whose deletion failed
RemoveStep_DropFailed(m, fails, i, st, r) ==
  RemoveLoop(m, fails, i + 1,
             [files     |-> r.files,
              remaining |-> st.remaining,
              log       |-> Append(st.log, RemoveRecord(m.targetKernels[i], r))])

\* the body of the loop for the obsolete target kernel i, r being what
\* appFs.Remove returned: on an error the kernel is kept in remaining
RemoveStep(m, fails, i, st, r) ==
  RemoveLoop(m, fails, i + 1,
             [files     |-> r.files,
              remaining |-> IF r.err # "nil" THEN Append(st.remaining, m.targetKernels[i])
                            ELSE st.remaining,
              log       |-> Append(st.log, RemoveRecord(m.targetKernels[i], r))])

RemoveLoop(m, fails, i, st) ==
  IF i > Len(m.targetKernels) THEN st
  ELSE IF ~isObsoleteKernel(m, m.targetKernels[i]) THEN RemoveLoop(m, fails, i + 1, st)
  ELSE RemoveStep(m, fails, i, st, Remove(st.files, m.targetKernels[i], fails[i]))

\* the state RemoveObsoleteKernels leaves
RemoveResult(m, fails) ==
  RemoveLoop(m, fails, 1,
             [files |-> fs[m.targetDir].files, remaining |-> <<>>, log |-> <<>>])

\* RemoveObsoleteKernels as if it also emptied the boot entries
RemoveObsoleteKernels_ClearsEntries ==
  /\ ~km.isNil
  /\ \E fails \in [1..Len(km.targetKernels) -> BOOLEAN] :
       \E r \in {RemoveResult(km, fails)} :
         /\ fs' = [fs EXCEPT ![km.targetDir].files = r.files]
         /\ km' = [km EXCEPT !.targetKernels = r.remaining, !.bootEntries = <<>>]
         /\ calls' = r.log
  /\ ret' = "nil"
  /\ lastOp' = "RemoveObsoleteKernels"
  /\ installCalls' = 0
  /\ UNCHANGED <<arch, bootcsv>>

RemoveObsoleteKernels ==
  /\ ~km.isNil
  /\ \E fails \in [1..Len(km.targetKernels) -> BOOLEAN] :
       \E r \in {RemoveResult(km, fails)} :
         /\ fs' = [fs EXCEPT ![km.targetDir].files = r.files]
         /\ km' = [km EXCEPT !.targetKernels = r.remaining]
         /\ calls' = r.log
  /\ ret' = "nil"
  /\ lastOp' = "RemoveObsoleteKernels"
  /\ installCalls' = 0
  /\ UNCHANGED <<arch, bootcsv>>

(***************************************************************************)
(* CommitToBootLoader.                                                     *)
(***************************************************************************)
\* one record of the fallback configuration: the four fields separated by
\* "," and ended by a newline
ShimFallbackLine(e) ==
  e.Filename \o <<44>> \o e.Label \o <<44>> \o e.Options \o <<44>> \o e.Description \o <<10>>

\* the content WriteShimFallbackToFile writes: one record per entry, in order
RECURSIVE ShimFallback(_)
ShimFallback(entries) ==
  IF entries = <<>> THEN <<>>
  ELSE ShimFallbackLine(Head(entries)) \o ShimFallback(Tail(entries))

\* WriteShimFallbackToFile: the file is overwritten; a failing write leaves it
WriteShimFallbackToFile(file, entries, fails) ==
  IF fails THEN [file |-> file, err |-> "ErrWrite"]
  ELSE [file |-> [exists |-> TRUE, data |-> ShimFallback(entries)], err |-> "nil"]

\* the record of the WriteShimFallbackToFile call: the file it was given, as
\* directory and name, and its error
WriteRecord(m, a, r) ==
  [call |-> "WriteShimFallbackToFile",
   file |-> [dir |-> m.targetDir, name |-> BootCsvName(a)],
   err  |-> r.err]

\* CommitToBootLoader as if it returned the error of the write
CommitToBootLoader_ReturnsWriteError ==
  /\ ~km.isNil
  /\ \E fails \in BOOLEAN :
       \E r \in {WriteShimFallbackToFile(bootcsv, km.bootEntries, fails)} :
         /\ bootcsv' = r.file
         /\ calls' = <<WriteRecord(km, arch, r)>>
         /\ ret' = r.err
  /\ lastOp' = "CommitToBootLoader"
  /\ installCalls' = 0
  /\ UNCHANGED <<arch, fs, km>>

\* the error of the write is logged, nil is returned
CommitToBootLoader ==
  /\ ~km.isNil
  /\ \E fails \in BOOLEAN :
       \E r \in {WriteShimFallbackToFile(bootcsv, km.bootEntries, fails)} :
         /\ bootcsv' = r.file
         /\ calls' = <<WriteRecord(km, arch, r)>>
  /\ ret' = "nil"
  /\ lastOp' = "CommitToBootLoader"
  /\ installCalls' = 0
  /\ UNCHANGED <<arch, fs, km>>

(***************************************************************************)
(* What the fallback loader reads back from BOOT<ARCH>.CSV.                *)
(***************************************************************************)
\* s cut at every occurrence of the byte sep (a trailing empty piece is
\* dropped); n: the position of the first occurrence
RECURSIVE Split(_, _)
SplitAt(s, sep, n) ==
  IF n = 0 THEN <<s>>
  ELSE <<SubSeq(s, 1, n - 1)>> \o Split(SliceFrom(s, n), sep)

Split(s, sep) == IF s = <<>> THEN <<>> ELSE SplitAt(s, sep, IndexOf(s, sep))

\* the file an options field refers to, "\<name> <kernel options>"; n: the
\* position of the first space
OptionsFileAt(options, n) ==
  IF n = 0 THEN Tail(options) ELSE SubSeq(options, 2, n - 1)

OptionsFile(options) == OptionsFileAt(options, IndexOf(options, 32))

\* the files the third field of the records refers to
ReferencedIn(lines) == { OptionsFile(Split(lines[i], 44)[3]) : i \in 1..Len(lines) }

\* the kernel files, of the directory of the loader, the configuration names
ReferencedKernels(file) ==
  IF ~file.exists THEN {} ELSE ReferencedIn(Split(file.data, 10))

(***************************************************************************)
(* The EFI variables behind the EFIVariables interface: NoEFIVariables,    *)
(* whose operations all fail, and MockEFIVariables, a map in memory.       *)
(***************************************************************************)
\* the variables the callers use: two names under one GUID, and one of the
\* names under a second GUID
Descriptors ==
  { [Name |-> "BootOrder", GUID |-> "8be4df61-93ca-11d2-aa0d-00e098032b8c"],
    [Name |-> "Boot0000", GUID |-> "8be4df61-93ca-11d2-aa0d-00e098032b8c"],
    [Name |-> "Boot0000", GUID |-> "605dab50-e046-4300-abb6-3dd810dd8b23"] }

\* a map key made of the name alone
VariableDescriptor_NameOnly(name, guid) == [Name |-> name, GUID |-> ""]

\* efi.VariableDescriptor{Name: name, GUID: guid}, the key of the store
VariableDescriptor(name, guid) == [Name |-> name, GUID |-> guid]

\* the data a caller writes ([]byte; the empty one also stands for nil) and
\* the efi.VariableAttributes it gives
Payloads == { <<>>, <<1>>, <<1, 0>> }
VariableAttributes == {1, 7}

\* the file paths a caller asks a device path for, as directory and name (no
\* name: the directory itself), and the two efi_linux.FileDevicePathMode
FilePaths ==
  { [dir |-> d, name |-> n] :
      d \in {SourceDirPath, TargetDirPath, "/nonexistent"},
      n \in {<<>>, Kernel9, BootCsvName(arch)} }
FileDevicePathModes == {"FullPath", "ShortForm"}

\* MockEFIVariables{}: the store is the nil map
NilStore == [isNil |-> TRUE, m |-> <<>>]

\* no EFI variable operation has run
NoEfiCall == [op |-> "none"]

\* NoEFIVariables: nothing is looked at
NoEFIVariables_ListVariables == [out |-> <<>>, err |-> "ErrVarsUnavailable"]

\* the error of a variable that does not exist
NoEFIVariables_GetVariable_NotExist(guid, name) ==
  [data |-> <<>>, attrs |-> 0, err |-> "ErrVarNotExist"]

NoEFIVariables_GetVariable(guid, name) ==
  [data |-> <<>>, attrs |-> 0, err |-> "ErrVarsUnavailable"]

NoEFIVariables_SetVariable(guid, name, data, attrs) == "ErrVarsUnavailable"

NoEFIVariables_NewFileDevicePath(filepath, mode) == [dp |-> <<>>, err |-> "Cannot access"]

\* the lists that hold every element of S once: the orders in which a range
\* over a map can visit its keys
Enumerations(S) ==
  { s \in [1..Cardinality(S) -> S] : \A i, j \in 1..Cardinality(S) : s[i] = s[j] => i = j }

\* the keys without the one visited first
MockEFIVariables_ListVariables_SkipFirst(st) ==
  { [out |-> Tail(s), err |-> "nil"] : s \in Enumerations(DOMAIN st.m) \ {<<>>} }
    \cup (IF DOMAIN st.m = {} THEN { [out |-> <<>>, err |-> "nil"] } ELSE {})

\* MockEFIVariables.ListVariables: the keys of the store in any order (nil,
\* the empty list, for no key); never an error
MockEFIVariables_ListVariables(st) ==
  { [out |-> s, err |-> "nil"] : s \in Enumerations(DOMAIN st.m) }

\* MockEFIVariables.GetVariable: the value under the descriptor of the name
\* and the GUID, or ErrVarNotExist
MockEFIVariables_GetVariable(st, guid, name) ==
  IF VariableDescriptor(name, guid) \in DOMAIN st.m
  THEN [data  |-> st.m[VariableDescriptor(name, guid)].data,
        attrs |-> st.m[VariableDescriptor(name, guid)].attrs,
        err   |-> "nil"]
  ELSE [data |-> <<>>, attrs |-> 0, err |-> "ErrVarNotExist"]

\* delete(m, d) and m[d] = v on a map
MapDelete(m, d) == [k \in DOMAIN m \ {d} |-> m[k]]
MapStore(m, d, v) == [k \in DOMAIN m \cup {d} |-> IF k = d THEN v ELSE m[k]]

\* empty data stored like any other
MockEFIVariables_SetVariable_KeepEmpty(st, guid, name, data, attrs) ==
  [store |-> [isNil |-> FALSE,
              m |-> MapStore(st.m, VariableDescriptor(name, guid),
                             [data |-> data, attrs |-> attrs])],
   err |-> "nil"]

\* MockEFIVariables.SetVariable: a nil store is made first; empty data
\* deletes the key, other data is stored with the attributes; never an error
MockEFIVariables_SetVariable(st, guid, name, data, attrs) ==
  [store |-> [isNil |-> FALSE,
              m |-> IF Len(data) = 0
                    THEN MapDelete(st.m, VariableDescriptor(name, guid))
                    ELSE MapStore(st.m, VariableDescriptor(name, guid),
                                  [data |-> data, attrs |-> attrs])],
   err |-> "nil"]

\* appFs.Open: a directory or a file that exists opens
Open(filepath) ==
  IF filepath.dir \notin DOMAIN fs THEN "ErrNotExist"
  ELSE IF ~fs[filepath.dir].exists THEN "ErrNotExist"
  ELSE IF filepath.name = <<>> THEN "nil"
  ELSE IF filepath.name \in Names(filepath.dir) THEN "nil"
  ELSE IF filepath.dir = TargetDirPath /\ bootcsv.exists
          /\ filepath.name = BootCsvName(arch) THEN "nil"
  ELSE "ErrNotExist"

\* the device path of MockEFIVariables.NewFileDevicePath: an ACPI node, a PCI
\* node and a USB node
MockDevicePath ==
  << [node |-> "ACPI", HID |-> 167985616],
     [node |-> "PCI", Device |-> 20, Function |-> 0],
     [node |-> "USB", ParentPortNumber |-> 11, InterfaceNumber |-> 1] >>

\* the device path whether or not the file opens
MockEFIVariables_NewFileDevicePath_NoOpen(openErr, mode) ==
  [dp |-> MockDevicePath, err |-> "nil"]

\* MockEFIVariables.NewFileDevicePath on the result of appFs.Open: the file
\* is opened and closed; the mode is not looked at
MockEFIVariables_NewFileDevicePath(openErr, mode) ==
  IF openErr # "nil" THEN [dp |-> <<>>, err |-> openErr]
  ELSE [dp |-> MockDevicePath, err |-> "nil"]

(***************************************************************************)
(* The initial states: the two directories as a package update and an      *)
(* earlier run left them, before NewKernelManager is called.               *)
(***************************************************************************)
\* the sets of at most MaxFiles names
DirContents == { S \in SUBSET FileNames : Cardinality(S) <= MaxFiles }

\* the boot entries of a list of kernels
EntriesFor(kernels, a) ==
  [i \in 1..Len(kernels) |-> NewBootEntry(kernels[i], a, KernelOptions)]

\* the boot entries an earlier run committed for the kernels of P
EarlierEntries(P, a) == EntriesFor(SortSlice(SortByName(P)).data, a)

ParsableKernels(S) ==
  { n \in S : HasPrefix(n, KernelPrefix) /\ NewVersion(getKernelABI(n)).ok }

Init ==
  /\ arch \in Architectures
  /\ \E srcOk \in BOOLEAN, tgtOk \in BOOLEAN, S \in DirContents, T \in DirContents :
       /\ ~srcOk => S = {}
       /\ ~tgtOk => T = {}
       /\ \E content \in [T -> {"cur", "old"}] :
            \* the content of a file matters only against a source file
            /\ \A n \in T \ S : content[n] = "old"
            /\ fs = (SourceDirPath :> [exists |-> srcOk, files |-> [n \in S |-> "cur"]])
                    @@ (TargetDirPath :> [exists |-> tgtOk, files |-> content])
       /\ \/ bootcsv = [exists |-> FALSE, data |-> <<>>]
          \/ /\ tgtOk
             /\ \E P \in SUBSET ParsableKernels(T) :
                  bootcsv = [exists |-> TRUE, data |-> ShimFallback(EarlierEntries(P, arch))]
  /\ km = NilManager
  /\ pc = "NewKernelManager"
  /\ lastOp = "none"
  /\ ret = "nil"
  /\ calls = <<>>
  /\ installCalls = 0
  /\ efivars = "none"
  /\ store = NilStore
  /\ efiOut = NoEfiCall

(***************************************************************************)
(* The manager used through its API, in any order.                         *)
(***************************************************************************)
CallNewKernelManager == NewKernelManager /\ UNCHANGED <<pc, efiVars>>

CallInstallKernels == InstallKernels /\ UNCHANGED <<pc, efiVars>>

CallRemoveObsoleteKernels == RemoveObsoleteKernels /\ UNCHANGED <<pc, efiVars>>

CallCommitToBootLoader == CommitToBootLoader /\ UNCHANGED <<pc, efiVars>>

Next ==
  \/ CallNewKernelManager
  \/ CallInstallKernels
  \/ CallRemoveObsoleteKernels
  \/ CallCommitToBootLoader

Spec == Init /\ [][Next]_vars

(***************************************************************************)
(* main() of nullbootctl from the construction of the manager on: each     *)
(* step runs when the previous one returned, and an error exits.           *)
(***************************************************************************)
\* main going on whatever the step returned
After_IgnoreError(err, next) == next

\* where main goes after a step that returned err
After(err, next) == IF err # "nil" THEN "exit1" ELSE next

MainNewKernelManager ==
  /\ pc = "NewKernelManager"
  /\ NewKernelManager
  /\ pc' = After(ret', "InstallKernels")
  /\ UNCHANGED efiVars

MainInstallKernels ==
  /\ pc = "InstallKernels"
  /\ InstallKernels
  /\ pc' = After(ret', "CommitToBootLoader")
  /\ UNCHANGED efiVars

MainCommitToBootLoader ==
  /\ pc = "CommitToBootLoader"
  /\ CommitToBootLoader
  /\ pc' = After(ret', "RemoveObsoleteKernels")
  /\ UNCHANGED efiVars

MainRemoveObsoleteKernels ==
  /\ pc = "RemoveObsoleteKernels"
  /\ RemoveObsoleteKernels
  /\ pc' = After(ret', "FinalCommitToBootLoader")
  /\ UNCHANGED efiVars

MainFinalCommitToBootLoader ==
  /\ pc = "FinalCommitToBootLoader"
  /\ CommitToBootLoader
  /\ pc' = After(ret', "done")
  /\ UNCHANGED efiVars

MainNext ==
  \/ MainNewKernelManager
  \/ MainInstallKernels
  \/ MainCommitToBootLoader
  \/ MainRemoveObsoleteKernels
  \/ MainFinalCommitToBootLoader

MainSpec == Init /\ [][MainNext]_vars

(***************************************************************************)
(* The EFI variables used through the EFIVariables interface, in any       *)
(* order, by a caller that was given one of the two implementations.       *)
(***************************************************************************)
CallNoListVariables ==
  /\ efivars = "NoEFIVariables"
  /\ \E r \in {NoEFIVariables_ListVariables} :
       efiOut' = [op |-> "ListVariables", out |-> r.out, err |-> r.err]
  /\ UNCHANGED <<kmVars, efivars, store>>

CallNoGetVariable ==
  /\ efivars = "NoEFIVariables"
  /\ \E d \in Descriptors :
       \E r \in {NoEFIVariables_GetVariable(d.GUID, d.Name)} :
         efiOut' = [op |-> "GetVariable", guid |-> d.GUID, name |-> d.Name,
                    data |-> r.data, attrs |-> r.attrs, err |-> r.err]
  /\ UNCHANGED <<kmVars, efivars, store>>

CallNoSetVariable ==
  /\ efivars = "NoEFIVariables"
  /\ \E d \in Descriptors, data \in Payloads, attrs \in VariableAttributes :
       efiOut' = [op |-> "SetVariable", guid |-> d.GUID, name |-> d.Name,
                  data |-> data, attrs |-> attrs,
                  err |-> NoEFIVariables_SetVariable(d.GUID, d.Name, data, attrs)]
  /\ UNCHANGED <<kmVars, efivars, store>>

CallNoNewFileDevicePath ==
  /\ efivars = "NoEFIVariables"
  /\ \E filepath \in FilePaths, mode \in FileDevicePathModes :
       \E r \in {NoEFIVariables_NewFileDevicePath(filepath, mode)} :
         efiOut' = [op |-> "NewFileDevicePath", filepath |-> filepath,
                    dp |-> r.dp, err |-> r.err]
  /\ UNCHANGED <<kmVars, efivars, store>>

CallMockListVariables ==
  /\ efivars = "MockEFIVariables"
  /\ \E r \in MockEFIVariables_ListVariables(store) :
       efiOut' = [op |-> "ListVariables", out |-> r.out, err |-> r.err]
  /\ UNCHANGED <<kmVars, efivars, store>>

CallMockGetVariable ==
  /\ efivars = "MockEFIVariables"
  /\ \E d \in Descriptors :
       \E r \in {MockEFIVariables_GetVariable(store, d.GUID, d.Name)} :
         efiOut' = [op |-> "GetVariable", guid |-> d.GUID, name |-> d.Name,
                    data |-> r.data, attrs |-> r.attrs, err |-> r.err]
  /\ UNCHANGED <<kmVars, efivars, store>>

CallMockSetVariable ==
  /\ efivars = "MockEFIVariables"
  /\ \E d \in Descriptors, data \in Payloads, attrs \in VariableAttributes :
       \E r \in {MockEFIVariables_SetVariable(store, d.GUID, d.Name, data, attrs)} :
         /\ store' = r.store
         /\ efiOut' = [op |-> "SetVariable", guid |-> d.GUID, name |-> d.Name,
                       data |-> data, attrs |-> attrs, err |-> r.err]
  /\ UNCHANGED <<kmVars, efivars>>

CallMockNewFileDevicePath ==
  /\ efivars = "MockEFIVariables"
  /\ \E filepath \in FilePaths, mode \in FileDevicePathModes :
       \E r \in {MockEFIVariables_NewFileDevicePath(Open(filepath), mode)} :
         efiOut' = [op |-> "NewFileDevicePath", filepath |-> filepath,
                    dp |-> r.dp, err |-> r.err]
  /\ UNCHANGED <<kmVars, efivars, store>>

\* the test filesystem of the caller: the target directory missing, or there
\* with a kernel and with or without the fallback configuration
EfiInit ==
  /\ arch \in Architectures
  /\ \E tgtOk \in BOOLEAN, csv \in BOOLEAN :
       /\ ~tgtOk => ~csv
       /\ fs = (SourceDirPath :> [exists |-> TRUE, files |-> <<>>])
               @@ (TargetDirPath :>
                     [exists |-> tgtOk,
                      files |-> IF tgtOk THEN (Kernel9 :> "cur") ELSE <<>>])
       /\ bootcsv = [exists |-> csv, data |-> <<>>]
  /\ km = NilManager
  /\ pc = "NewKernelManager"
  /\ lastOp = "none"
  /\ ret = "nil"
  /\ calls = <<>>
  /\ installCalls = 0
  /\ efivars \in {"NoEFIVariables", "MockEFIVariables"}
  /\ store = NilStore
  /\ efiOut = NoEfiCall

EfiNext ==
  \/ CallNoListVariables
  \/ CallNoGetVariable
  \/ CallNoSetVariable
  \/ CallNoNewFileDevicePath
  \/ CallMockListVariables
  \/ CallMockGetVariable
  \/ CallMockSetVariable
  \/ CallMockNewFileDevicePath

EfiSpec == EfiInit /\ [][EfiNext]_vars

(***************************************************************************)
(* Vocabulary of the properties.                                           *)
(***************************************************************************)
\* the kernels of a call log, in call order
LogKernels(log) == [i \in 1..Len(log) |-> log[i].kernel]

\* the kernels of a call log whose call returned no error, in call order
LogSucceeded(log) == LogKernels(SelectSeq(log, LAMBDA c : c.err = "nil"))

\* the kernels of a call log with the outcome of each call
LogOutcomes(log) == [i \in 1..Len(log) |-> <<log[i].kernel, log[i].err = "nil">>]

\* the elements of a sequence
Range(s) == { s[i] : i \in 1..Len(s) }

\* a file name with the 11 bytes of "kernel.efi-" removed
AbiOf(name) == SubSeq(name, 12, Len(name))

\* t ends with s
HasSuffix(t, s) == Len(t) >= Len(s) /\ SubSeq(t, Len(t) - Len(s) + 1, Len(t)) = s

\* the enumerated kernel file names of a directory
KernelNames(dir) == { n \in Names(dir) : HasPrefix(n, KernelPrefix) }

Parsable(name) == NewVersion(AbiOf(name)).ok

\* InstallKernels has just returned
Installed == ~km.isNil /\ lastOp = "InstallKernels"

\* NewKernelManager has just returned a manager
Constructed == ~km.isNil /\ lastOp = "NewKernelManager"

\* RemoveObsoleteKernels has just returned
Removed == ~km.isNil /\ lastOp = "RemoveObsoleteKernels"

(***************************************************************************)
(* C1                                                                      *)
(***************************************************************************)
\* C1 (as stated): after InstallKernels returns there is one boot entry for
\* every source kernel, whether or not its copy succeeded: as many entries
\* as source kernels, the i-th entry being the one of the i-th source kernel
\* (Options "\" + file name + " " + kernel options).
C1_EntryForEverySourceKernel ==
  Installed =>
    /\ Len(km.bootEntries) = Len(km.sourceKernels)
    /\ \A i \in 1..Len(km.sourceKernels) :
         km.bootEntries[i].Options =
           <<92>> \o km.sourceKernels[i] \o <<32>> \o km.kernelOptions

\* C1 (amended): after InstallKernels returns there is one boot entry for
\* every source kernel whose copy succeeded and none for a kernel whose copy
\* failed: as many entries as successful copies, the i-th entry being the
\* one of the i-th successfully copied kernel.
C1_EntryForEveryCopiedKernel ==
  Installed =>
    /\ Len(km.bootEntries) = Len(LogSucceeded(calls))
    /\ \A i \in 1..Len(km.bootEntries) :
         km.bootEntries[i].Options =
           <<92>> \o LogSucceeded(calls)[i] \o <<32>> \o km.kernelOptions

\* an InstallKernels call in which one copy failed and another succeeded
C1_Witness ==
  /\ Installed
  /\ \E i \in 1..Len(calls) : calls[i].err # "nil"
  /\ \E i \in 1..Len(calls) : calls[i].err = "nil"
  /\ Len(km.bootEntries) < Len(km.sourceKernels)

(***************************************************************************)
(* C2                                                                      *)
(***************************************************************************)
\* C2: at every point of the run of main, every kernel file the on-disk
\* fallback configuration refers to exists in the target directory.
C2_ReferencedKernelsExist ==
  ReferencedKernels(bootcsv) \subseteq Names(TargetDirPath)

(***************************************************************************)
(* C3                                                                      *)
(***************************************************************************)
\* C3: when NewKernelManager has returned and a kernel file name of the
\* source or the target directory has an ABI that does not parse, it
\* returned an error and no manager.
C3_UnparsableFailsConstruction ==
  ( /\ lastOp = "NewKernelManager"
    /\ \E n \in KernelNames(SourceDirPath) \cup KernelNames(TargetDirPath) : ~Parsable(n) )
  => (km.isNil /\ ret # "nil")

(***************************************************************************)
(* C4                                                                      *)
(***************************************************************************)
\* C4: a RemoveObsoleteKernels call leaves as the tracked target list the
\* list before the call minus the kernels it deleted successfully.
C4_TrackedMinusDeleted ==
  [][ (~km.isNil /\ lastOp' = "RemoveObsoleteKernels") =>
        km'.targetKernels =
          SelectSeq(km.targetKernels,
                    LAMBDA k : k \notin Range(LogSucceeded(calls'))) ]_vars

(***************************************************************************)
(* C5                                                                      *)
(***************************************************************************)
\* C5: a RemoveObsoleteKernels call attempts the deletion of exactly the
\* tracked target kernels whose name is not in the source set, once each
\* and in list order, and no file named in the source set leaves the target
\* directory.
C5_DeletesExactlyObsolete ==
  [][ (~km.isNil /\ lastOp' = "RemoveObsoleteKernels") =>
        /\ LogKernels(calls') =
             SelectSeq(km.targetKernels, LAMBDA k : k \notin Range(km.sourceKernels))
        /\ \A n \in Names(TargetDirPath) :
             n \in Range(km.sourceKernels) => n \in DOMAIN fs'[TargetDirPath].files ]_vars

\* a call that attempted a deletion while a source kernel, not the first of
\* the source list, was also in the target directory and stayed there
C5_Witness ==
  /\ Removed
  /\ calls # <<>>
  /\ \E i \in 2..Len(km.sourceKernels) : km.sourceKernels[i] \in Names(TargetDirPath)

(***************************************************************************)
(* C6                                                                      *)
(***************************************************************************)
\* C6: after RemoveObsoleteKernels, which returns no error, a kernel whose
\* deletion succeeded is neither tracked nor in the target directory, and a
\* kernel whose deletion failed is still tracked and still in the directory.
C6_DeletedUntrackedFailedKept ==
  Removed =>
    /\ ret = "nil"
    /\ \A i \in 1..Len(calls) :
         IF calls[i].err = "nil"
         THEN /\ calls[i].kernel \notin Range(km.targetKernels)
              /\ calls[i].kernel \notin Names(TargetDirPath)
         ELSE /\ calls[i].kernel \in Range(km.targetKernels)
              /\ calls[i].kernel \in Names(TargetDirPath)

\* a call in which one deletion succeeded and another failed
C6_Witness ==
  /\ Removed
  /\ \E i \in 1..Len(calls) : calls[i].err = "nil"
  /\ \E i \in 1..Len(calls) : calls[i].err # "nil"

(***************************************************************************)
(* C7                                                                      *)
(***************************************************************************)
\* C7: when every copy of an InstallKernels call succeeded, the boot entries
\* are one per source kernel, in the order of the source list, with Filename
\* "shim" + architecture + ".efi", Options "\" + the kernel's file name +
\* " " + the kernel options, and Label and Description ending with the
\* kernel's ABI, the file name without "kernel.efi-".
C7_EntriesOfSuccessfulInstall ==
  (Installed /\ \A i \in 1..Len(calls) : calls[i].err = "nil") =>
    /\ Len(km.bootEntries) = Len(km.sourceKernels)
    /\ \A i \in 1..Len(km.sourceKernels) :
         /\ km.bootEntries[i].Filename = <<115, 104, 105, 109>> \o arch \o <<46, 101, 102, 105>>
         /\ km.bootEntries[i].Options =
              <<92>> \o km.sourceKernels[i] \o <<32>> \o km.kernelOptions
         /\ HasSuffix(km.bootEntries[i].Label, AbiOf(km.sourceKernels[i]))
         /\ HasSuffix(km.bootEntries[i].Description, AbiOf(km.sourceKernels[i]))
         /\ <<107, 101, 114, 110, 101, 108, 46, 101, 102, 105, 45>> \o AbiOf(km.sourceKernels[i]) = km.sourceKernels[i]

\* a call that copied two source kernels, all copies succeeding
C7_Witness ==
  /\ Installed
  /\ Len(calls) >= 2
  /\ \A i \in 1..Len(calls) : calls[i].err = "nil"
  /\ Len(km.bootEntries) = Len(calls)

(***************************************************************************)
(* C8                                                                      *)
(***************************************************************************)
\* C8: InstallKernels attempts the copy once for every source kernel, in the
\* order of the source list, whatever the earlier copies returned, and
\* returns no error.
C8_EveryCopyAttempted ==
  Installed => (ret = "nil" /\ LogKernels(calls) = km.sourceKernels)

\* a call whose first copy failed and that went on to the second kernel
C8_Witness ==
  /\ Installed
  /\ Len(calls) >= 2
  /\ calls[1].err # "nil"
  /\ calls[2].kernel = km.sourceKernels[2]

(***************************************************************************)
(* C9                                                                      *)
(***************************************************************************)
\* C9: an InstallKernels call that follows an InstallKernels call and whose
\* copies have the outcomes of the copies of that call leaves the boot-entry
\* list that call left, with no entry twice.
C9_InstallReplacesEntries ==
  [][ ( /\ Installed
        /\ lastOp' = "InstallKernels"
        /\ LogOutcomes(calls') = LogOutcomes(calls) )
      => /\ km'.bootEntries = km.bootEntries
         /\ \A i, j \in 1..Len(km'.bootEntries) :
              km'.bootEntries[i] = km'.bootEntries[j] => i = j ]_vars

\* an InstallKernels call right after an InstallKernels call, leaving entries
C9_Witness ==
  /\ Installed
  /\ installCalls >= 2
  /\ km.bootEntries # <<>>

(***************************************************************************)
(* C10                                                                     *)
(***************************************************************************)
\* the version of the i-th source kernel
SourceVersion(i) == NewVersion(AbiOf(km.sourceKernels[i]))

\* C10 (as stated): when NewKernelManager returns a manager over parsable
\* names the source list is strictly descending by version and sorting it
\* again leaves it unchanged.
C10_SourceStrictlyDescending ==
  (Constructed /\ \A n \in Range(km.sourceKernels) : Parsable(n)) =>
    /\ \A i \in 1..(Len(km.sourceKernels) - 1) :
         GreaterThan(SourceVersion(i), SourceVersion(i + 1))
    /\ SortSlice(km.sourceKernels).data = km.sourceKernels

\* C10 (amended): when NewKernelManager returns a manager over parsable
\* names no kernel of the source list is followed by one with a greater
\* version (file names whose versions compare equal may follow each other),
\* the list is strictly descending when no two versions compare equal, and
\* sorting it again leaves it unchanged.
C10_SourceDescending ==
  (Constructed /\ \A n \in Range(km.sourceKernels) : Parsable(n)) =>
    /\ \A i, j \in 1..Len(km.sourceKernels) :
         i < j => Compare(SourceVersion(i), SourceVersion(j)) >= 0
    /\ (\A i, j \in 1..Len(km.sourceKernels) :
          i # j => Compare(SourceVersion(i), SourceVersion(j)) # 0)
       => \A i \in 1..(Len(km.sourceKernels) - 1) :
            GreaterThan(SourceVersion(i), SourceVersion(i + 1))
    /\ SortSlice(km.sourceKernels).data = km.sourceKernels

\* a manager whose source list was reordered by the sort: the directory
\* listing had kernel.efi-5.4.0-10 before kernel.efi-5.4.0-9
C10_Witness ==
  /\ Constructed
  /\ Len(km.sourceKernels) >= 2
  /\ \A n \in Range(km.sourceKernels) : Parsable(n)
  /\ km.sourceKernels # SortByName(Range(km.sourceKernels))

(***************************************************************************)
(* C11                                                                     *)
(***************************************************************************)
\* CommitToBootLoader has just returned
Committed == ~km.isNil /\ lastOp = "CommitToBootLoader"

\* C11: a CommitToBootLoader call whose write of the fallback configuration
\* fails returns no error and leaves the manager, its boot entries among it,
\* and the file on disk as they were.
C11_WriteFailureNotReported ==
  [][ ( /\ lastOp' = "CommitToBootLoader"
        /\ calls'[1].err # "nil" )
      => /\ ret' = "nil"
         /\ km' = km
         /\ km'.bootEntries = km.bootEntries
         /\ bootcsv' = bootcsv ]_vars

\* a commit whose write failed, leaving a file that is not the configuration
\* of the boot entries the manager holds
C11_Witness ==
  /\ Committed
  /\ calls[1].err # "nil"
  /\ ret = "nil"
  /\ km.bootEntries # <<>>
  /\ bootcsv.exists
  /\ bootcsv.data # ShimFallback(km.bootEntries)

(***************************************************************************)
(* C12                                                                     *)
(***************************************************************************)
\* one record of the configuration as the fallback loader reads it: four
\* fields separated by commas, ended by a newline
ConfigurationLine(e) ==
  e.Filename \o <<44>> \o e.Label \o <<44>> \o e.Options \o <<44>> \o e.Description
    \o <<10>>

\* C12: after a CommitToBootLoader call whose write succeeded the file
\* written is BOOTX64.CSV, or BOOTAA64.CSV on aa64, of the target directory,
\* and it holds the records of the current boot entries, in order, and
\* nothing else, whatever it held before; so a second commit of the same
\* list leaves the same bytes.
C12_CommitDeterminedByEntries ==
  (Committed /\ calls[1].err = "nil") =>
    /\ calls[1].file.dir = "/boot/efi/EFI/ubuntu"
    /\ arch = <<120, 54, 52>> => calls[1].file.name = <<66, 79, 79, 84, 88, 54, 52, 46, 67, 83, 86>>
    /\ arch = <<97, 97, 54, 52>> => calls[1].file.name = <<66, 79, 79, 84, 65, 65, 54, 52, 46, 67, 83, 86>>
    /\ bootcsv.exists
    /\ Len(Split(bootcsv.data, 10)) = Len(km.bootEntries)
    /\ \A i \in 1..Len(km.bootEntries) :
         Split(bootcsv.data, 10)[i] \o <<10>> = ConfigurationLine(km.bootEntries[i])

\* a successful commit of two boot entries
C12_Witness ==
  /\ Committed
  /\ calls[1].err = "nil"
  /\ Len(km.bootEntries) >= 2
  /\ bootcsv.data # <<>>

(***************************************************************************)
(* C13                                                                     *)
(***************************************************************************)
\* the last EFIVariables call was op on the MockEFIVariables
MockCalled(op) == efivars = "MockEFIVariables" /\ efiOut.op = op

\* C13: SetVariable of the MockEFIVariables returns no error, in every state
\* of the store; a GetVariable of the same name and GUID that comes next
\* fails with ErrVarNotExist when the data written was empty, and returns
\* the data and the attributes written otherwise.
C13_GetAfterSet ==
  [][ /\ MockCalled("SetVariable")' => efiOut'.err = "nil"
      /\ ( /\ MockCalled("SetVariable")
           /\ MockCalled("GetVariable")'
           /\ efiOut'.guid = efiOut.guid
           /\ efiOut'.name = efiOut.name )
         => IF efiOut.data = <<>>
            THEN efiOut'.err = "ErrVarNotExist"
            ELSE /\ efiOut'.err = "nil"
                 /\ efiOut'.data = efiOut.data
                 /\ efiOut'.attrs = efiOut.attrs ]_vars

\* a GetVariable that returned the two bytes written, with another variable
\* in the store
C13_Witness ==
  /\ MockCalled("GetVariable")
  /\ efiOut.err = "nil"
  /\ efiOut.data = <<1, 0>>
  /\ Cardinality(DOMAIN store.m) >= 2

(***************************************************************************)
(* C14                                                                     *)
(***************************************************************************)
\* the last EFIVariables call was made on the NoEFIVariables
NoCalled == efivars = "NoEFIVariables" /\ efiOut.op # "none"

\* C14 (as stated): every operation of the NoEFIVariables fails with
\* ErrVarsUnavailable.
C14_AllFailUnavailable ==
  NoCalled => efiOut.err = "ErrVarsUnavailable"

\* C14 (amended): ListVariables, GetVariable and SetVariable of the
\* NoEFIVariables fail with ErrVarsUnavailable, and NewFileDevicePath fails
\* with the error "Cannot access", for every argument.
C14_AllFail ==
  NoCalled =>
    /\ efiOut.op \in {"ListVariables", "GetVariable", "SetVariable"}
         => efiOut.err = "ErrVarsUnavailable"
    /\ efiOut.op = "NewFileDevicePath" => efiOut.err = "Cannot access"

\* a NewFileDevicePath of the NoEFIVariables on a file that exists
C14_Witness ==
  /\ NoCalled
  /\ efiOut.op = "NewFileDevicePath"
  /\ efiOut.filepath = [dir |-> TargetDirPath, name |-> Kernel9]
  /\ fs[TargetDirPath].exists

(***************************************************************************)
(* C15                                                                     *)
(***************************************************************************)
\* C15: a SetVariable of the MockEFIVariables, writing or deleting, leaves
\* what GetVariable returns as it was for every descriptor that differs from
\* the one set in the name or in the GUID.
C15_SetLeavesOthers ==
  [][ MockCalled("SetVariable")' =>
        \A d \in Descriptors :
          (d.Name # efiOut'.name \/ d.GUID # efiOut'.guid)
            => MockEFIVariables_GetVariable(store', d.GUID, d.Name)
                 = MockEFIVariables_GetVariable(store, d.GUID, d.Name) ]_vars

\* a SetVariable of Boot0000 under one GUID while Boot0000 under the other
\* GUID holds other data
C15_Witness ==
  /\ MockCalled("SetVariable")
  /\ efiOut.name = "Boot0000"
  /\ efiOut.data = <<1>>
  /\ \E d \in DOMAIN store.m :
       /\ d.Name = "Boot0000"
       /\ d.GUID # efiOut.guid
       /\ store.m[d].data = <<1, 0>>

(***************************************************************************)
(* C16                                                                     *)
(***************************************************************************)
\* C16: a NewKernelManager call made while the source directory or the
\* target directory cannot be listed returns an error and no manager, and
\* leaves the file system as it was: no directory is created.
C16_UnlistableFailsConstruction ==
  [][ ( /\ lastOp' = "NewKernelManager"
        /\ \/ ~fs[SourceDirPath].exists
           \/ ~fs[TargetDirPath].exists )
      => /\ ret' # "nil"
         /\ km'.isNil
         /\ fs' = fs
         /\ bootcsv' = bootcsv ]_vars

\* a failed construction with kernels in the source directory and no target
\* directory
C16_Witness ==
  /\ lastOp = "NewKernelManager"
  /\ ret # "nil"
  /\ fs[SourceDirPath].exists
  /\ KernelNames(SourceDirPath) # {}
  /\ ~fs[TargetDirPath].exists

(***************************************************************************)
(* C17                                                                     *)
(***************************************************************************)
\* the operation main runs after each operation
MainOrder ==
  { <<"none", "NewKernelManager">>,
    <<"NewKernelManager", "InstallKernels">>,
    <<"InstallKernels", "CommitToBootLoader">>,
    <<"CommitToBootLoader", "RemoveObsoleteKernels">>,
    <<"RemoveObsoleteKernels", "CommitToBootLoader">> }

\* C17: every step of main comes after a step that returned no error and is
\* the operation that follows the previous one in the order InstallKernels,
\* CommitToBootLoader, RemoveObsoleteKernels, CommitToBootLoader; a step
\* that returns an error makes main exit; RemoveObsoleteKernels runs right
\* after the CommitToBootLoader that follows InstallKernels, and the commit
\* after it is the last step.
C17_FixedOrder ==
  [][ /\ ret = "nil"
      /\ pc \notin {"exit1", "done"}
      /\ <<lastOp, lastOp'>> \in MainOrder
      /\ ret' # "nil" => pc' = "exit1"
      /\ lastOp' = "RemoveObsoleteKernels" =>
           /\ lastOp = "CommitToBootLoader"
           /\ pc' = "FinalCommitToBootLoader"
      /\ lastOp = "RemoveObsoleteKernels" => pc' = "done" ]_vars

\* a run of main to its end with boot entries
C17_Witness ==
  /\ pc = "done"
  /\ lastOp = "CommitToBootLoader"
  /\ km.bootEntries # <<>>

(***************************************************************************)
(* C18                                                                     *)
(***************************************************************************)
\* C18: ListVariables of the MockEFIVariables returns no error and a list
\* that holds, once each, the descriptors for which GetVariable returns no
\* error, and no other; so not a deleted descriptor, and a descriptor
\* written twice once.
C18_ListIsWhatGetFinds ==
  MockCalled("ListVariables") =>
    /\ efiOut.err = "nil"
    /\ Range(efiOut.out) =
         { d \in Descriptors :
             MockEFIVariables_GetVariable(store, d.GUID, d.Name).err = "nil" }
    /\ \A i, j \in 1..Len(efiOut.out) : efiOut.out[i] = efiOut.out[j] => i = j

\* a list of two of the three descriptors
C18_Witness ==
  /\ MockCalled("ListVariables")
  /\ Len(efiOut.out) = 2
  /\ ~store.isNil

(***************************************************************************)
(* C19                                                                     *)
(***************************************************************************)
\* C19: RemoveObsoleteKernels leaves the boot entries and the source
\* kernels of the manager as they were, whatever its removals did, and so
\* does CommitToBootLoader: a commit, a removal and a commit in a row hand
\* the same boot entries to both commits.
C19_RemoveKeepsEntries ==
  [][ lastOp' \in {"RemoveObsoleteKernels", "CommitToBootLoader"} =>
        /\ km'.bootEntries = km.bootEntries
        /\ km'.sourceKernels = km.sourceKernels ]_vars

\* a RemoveObsoleteKernels call that deleted a kernel and failed to delete
\* another, by a manager that holds boot entries
C19_Witness ==
  /\ Removed
  /\ km.bootEntries # <<>>
  /\ \E i \in 1..Len(calls) : calls[i].err = "nil"
  /\ \E i \in 1..Len(calls) : calls[i].err # "nil"

(***************************************************************************)
(* C20                                                                     *)
(***************************************************************************)
\* C20: NewFileDevicePath of the MockEFIVariables returns an error exactly
\* when appFs.Open of the path does, a directory or a file that is not
\* there; for a path that opens it returns the device path of the ACPI node
\* 0x0a0341d0, the PCI node of device 0x14, function 0, and the USB node of
\* port 0xb, interface 1; it changes neither the store nor the file system.
C20_DevicePathOfOpenablePath ==
  [][ MockCalled("NewFileDevicePath")' =>
        /\ efiOut'.err # "nil" <=>
             \/ efiOut'.filepath.dir \notin DOMAIN fs
             \/ ~fs[efiOut'.filepath.dir].exists
             \/ /\ efiOut'.filepath.name # <<>>
                /\ efiOut'.filepath.name \notin Names(efiOut'.filepath.dir)
                /\ ~( /\ efiOut'.filepath.dir = "/boot/efi/EFI/ubuntu"
                      /\ bootcsv.exists
                      /\ efiOut'.filepath.name = BootCsvName(arch) )
        /\ efiOut'.err = "nil" =>
             efiOut'.dp = << [node |-> "ACPI", HID |-> 167985616],
                             [node |-> "PCI", Device |-> 20, Function |-> 0],
                             [node |-> "USB", ParentPortNumber |-> 11,
                              InterfaceNumber |-> 1] >>
        /\ store' = store
        /\ fs' = fs
        /\ bootcsv' = bootcsv ]_vars

\* a device path returned for the fallback configuration file
C20_Witness ==
  /\ MockCalled("NewFileDevicePath")
  /\ efiOut.err = "nil"
  /\ efiOut.filepath.name = BootCsvName(arch)
  /\ efiOut.dp # <<>>

====
